---- MODULE Spec2Model ----
(***************************************************************************)
(* VoxStruct: the transcript assembly pipeline.                            *)
(*                                                                         *)
(*   TranscriptBuilder  src/src/voxstruct/utils/transcript_builder.py      *)
(*   AudioProcessor     src/src/voxstruct/utils/audio_processor.py         *)
(*   SpeechRecognizer   src/src/voxstruct/utils/speech_recognizer.py       *)
(*   PauseDetector      src/src/utils/pause_detector.py                    *)
(*   main               src/src/voxstruct/main.py                          *)
(*                                                                         *)
(* Representation.                                                         *)
(*  - A Python Optional is a sequence: None is <<>>, a present v is <<v>>. *)
(*  - Absolute times are integer milliseconds.  A word unit's relative     *)
(*    bounds are seconds, held in tenths of a second (15 is 1.5 s).        *)
(*  - A confidence is held in hundredths (90 is 0.9); a quotient the code  *)
(*    computes with / is held exactly, as the pair <<numerator,            *)
(*    denominator>>.  IEEE rounding of such quotients is not modelled.     *)
(*  - A Python str the code builds is the sequence of the pieces the code  *)
(*    appends: a word or text is one piece, every other character is a     *)
(*    piece of its own.  "\\" is the backslash character and "\n" the      *)
(*    line feed, as in Python.                                             *)
(***************************************************************************)
EXTENDS Integers, Sequences, FiniteSets, TLC

VARIABLES
    granularity,   \* TranscriptBuilder.granularity: "chunk" or "word"
    segments,      \* TranscriptBuilder.segments
    metadata,      \* TranscriptBuilder.metadata
    op,            \* the operation called last
    raised,        \* the exception that call raised, "None" if it returned
    format_type,   \* format of the last build_transcript since the last append
    transcript,    \* and the string it returned
    meta,          \* what the last call returned, if it was get_metadata
                   \* or get_segments_for_llm
    audio,         \* AudioProcessor.audio: None or <<duration in ms>>
    chunk_size,    \* AudioProcessor.chunk_size
    chunks,        \* what the last call returned, if it was get_chunks
    silence,       \* what detect_silence does with the audio analysed
    recognizer,    \* SpeechRecognizer: None or <<[engine, granularity]>>
    temp_files,    \* the temporary WAV files that exist, by name
    result,        \* what the last transcribe_audio returned
    pc,            \* main: where the run is
    pause_timestamps,  \* what the last PauseDetector call returned
                       \* (main: detect_pauses)
    current_time_ms,   \* main: absolute time of the next chunk
    results,       \* main: the result of each chunk processed so far
    stderr         \* main: the messages printed to sys.stderr

builderVars == <<granularity, segments, metadata>>
callVars == <<op, raised, format_type, transcript, meta>>
audioVars == <<audio, chunk_size, chunks, silence>>
recognizerVars == <<recognizer, temp_files, result>>
mainVars == <<pc, pause_timestamps, current_time_ms, results, stderr>>
vars == <<granularity, segments, metadata, op, raised, format_type,
          transcript, meta, audio, chunk_size, chunks, silence,
          recognizer, temp_files, result, pc, pause_timestamps,
          current_time_ms, results, stderr>>

-----------------------------------------------------------------------------
(* Python values *)

\* What detect_silence(audio_segment, ...) does: it raises, or returns the
\* silence ranges [start, end] in ms; no audio has been analysed at first
Found(silence_ranges) == [raised |-> FALSE, ranges |-> silence_ranges]
NotAnalysed == Found(<<>>)

None == <<>>
Some(v) == <<v>>

\* Python truthiness of an Optional[str]: None and "" are false.
Truthy(o) == o # None /\ o[1] # ""

Max(a, b) == IF a >= b THEN a ELSE b
Min(a, b) == IF a <= b THEN a ELSE b
Abs(x) == IF x < 0 THEN -x ELSE x

\* sum(xs) of a list of integers
RECURSIVE SumSeq(_)
SumSeq(xs) == IF xs = <<>> THEN 0 ELSE xs[1] + SumSeq(Tail(xs))

-----------------------------------------------------------------------------
(* Bounds of the model *)

MaxSegments == 3
MaxPauses == 2
MaxDuration == 10
MaxChunkSize == 5

-----------------------------------------------------------------------------
(* Thresholds of build_transcript *)

WordPeriodGap == 800
WordCommaGap == 300
ChunkMajorGap == 1000
ChunkPeriodGap == 400
PauseTolerance == 150

-----------------------------------------------------------------------------
(* str.strip() on a text or word.  The sample texts carry at most one      *)
(* leading and one trailing blank.                                         *)

StripText(t) ==
    CASE t = " b " -> "b"
      [] t = " " -> ""
      [] OTHER -> t

IsSpace(c) == c \in {" ", "\n", "\t"}

\* s += pieces; an empty str adds nothing
Cat(t, pieces) == t \o SelectSeq(pieces, LAMBDA p : p # "")

\* str.strip() on a built string: leading and trailing whitespace goes
RECURSIVE LStrip(_)
LStrip(t) == IF t # <<>> /\ IsSpace(t[1]) THEN LStrip(Tail(t)) ELSE t

RECURSIVE RStrip(_)
RStrip(t) ==
    IF t # <<>> /\ IsSpace(t[Len(t)])
    THEN RStrip(SubSeq(t, 1, Len(t) - 1))
    ELSE t

Strip(t) == RStrip(LStrip(t))

\* " ".join(items)
JoinSpace(items) ==
    LET n == Len(items)
        spaced == [k \in 1..(2 * n - 1) |->
                      IF k % 2 = 1 THEN items[(k + 1) \div 2] ELSE " "]
    IN  IF n = 0 THEN <<>> ELSE Cat(<<>>, spaced)

\* transcript.endswith(("\\n", "\\n ")): the two characters backslash, n
EndsWithBreak(t) ==
    \/ Len(t) >= 2 /\ t[Len(t) - 1] = "\\" /\ t[Len(t)] = "n"
    \/ Len(t) >= 3 /\ t[Len(t) - 2] = "\\" /\ t[Len(t) - 1] = "n"
                   /\ t[Len(t)] = " "

Digit(d) ==
    CASE d = 0 -> "0" [] d = 1 -> "1" [] d = 2 -> "2" [] d = 3 -> "3"
      [] d = 4 -> "4" [] d = 5 -> "5" [] d = 6 -> "6" [] d = 7 -> "7"
      [] d = 8 -> "8" [] d = 9 -> "9"

RECURSIVE NatStr(_)
NatStr(n) ==
    IF n < 10 THEN <<Digit(n)>> ELSE Append(NatStr(n \div 10), Digit(n % 10))

RECURSIVE Pow10(_)
Pow10(k) == IF k = 0 THEN 1 ELSE 10 * Pow10(k - 1)

RECURSIVE FracStr(_, _)
FracStr(n, k) ==
    IF k = 0 THEN <<>> ELSE Append(FracStr(n \div 10, k - 1), Digit(n % 10))

\* f"{ms/1000:.<k>f}" for ms >= 0 and k in 1..3, rounded to the nearest.
\* Every time of the model is a multiple of 100 ms, so no tie arises.
FormatSeconds(ms, k) ==
    LET unit == 1000 \div Pow10(k)
        q == (ms + unit \div 2) \div unit
    IN  NatStr(q \div Pow10(k)) \o <<".">> \o FracStr(q % Pow10(k), k)

-----------------------------------------------------------------------------
(* TranscriptBuilder *)

Formats == {"raw", "simple", "detailed"}

\* __init__: the builder as constructed with granularity g
NewBuilder(g) ==
    /\ granularity = g
    /\ segments = <<>>
    /\ metadata = [total_duration |-> 0,
                   pause_points |-> <<>>,
                   speaker_changes |-> <<>>,
                   confidence_scores |-> <<>>]

\* The speaker test without the test that the segment carries a speaker
SpeakerChangedAnyDifference(segs, speaker) ==
    Len(segs) <= 1 \/ segs[Len(segs) - 1].speaker # speaker

\* The test of lines 58 and 104, made after the segment is appended to segs
SpeakerChanged(segs, speaker) ==
    Truthy(speaker)
    /\ (Len(segs) <= 1 \/ segs[Len(segs) - 1].speaker # speaker)

\* UpdateMetadata with total_duration overwritten by the last end time
UpdateMetadataLastEnd(md, segs, start_time, end_time, speaker, confidence) ==
    [md EXCEPT
        !.total_duration = end_time,
        !.confidence_scores =
            IF confidence # None THEN Append(@, confidence) ELSE @,
        !.speaker_changes =
            IF SpeakerChanged(segs, speaker) THEN Append(@, start_time) ELSE @]

\* "Update metadata": total duration, confidence list, speaker changes
UpdateMetadata(md, segs, start_time, end_time, speaker, confidence) ==
    [md EXCEPT
        !.total_duration = Max(@, end_time),
        !.confidence_scores =
            IF confidence # None THEN Append(@, confidence) ELSE @,
        !.speaker_changes =
            IF SpeakerChanged(segs, speaker) THEN Append(@, start_time) ELSE @]

\* The segment add_chunk_segment stores
ChunkSegment(text, start_time, end_time, speaker, confidence) ==
    [text |-> StripText(text),
     start_time |-> start_time,
     end_time |-> end_time,
     speaker |-> speaker,
     confidence |-> confidence]

\* AbsTimeMs without the chunk's offset
AbsTimeMsRelative(chunk_start_time_ms, tenths) == tenths * 100

\* chunk_start_time_ms + (sec * 1000), sec held in tenths of a second
AbsTimeMs(chunk_start_time_ms, tenths) == chunk_start_time_ms + tenths * 100

\* Skipped without the test of the word
SkippedBoundsOnly(word_info) ==
    \/ word_info.start = None
    \/ word_info.end = None

\* "if not word or start_sec is None or end_sec is None: continue"
Skipped(word_info) ==
    \/ StripText(word_info.word) = ""
    \/ word_info.start = None
    \/ word_info.end = None

\* The segment add_word_segments stores for one word unit
WordSegment(word_info, chunk_start_time_ms, speaker) ==
    [word |-> StripText(word_info.word),
     start_time |-> AbsTimeMs(chunk_start_time_ms, word_info.start[1]),
     end_time |-> AbsTimeMs(chunk_start_time_ms, word_info.end[1]),
     speaker |-> speaker,
     confidence |-> word_info.confidence]

\* The loop of add_word_segments over word_segment_list, from the builder
\* state b = [segments, metadata]
RECURSIVE AddWords(_, _, _, _)
AddWords(b, word_segment_list, chunk_start_time_ms, speaker) ==
    IF word_segment_list = <<>> THEN b
    ELSE LET word_info == Head(word_segment_list)
             segment == WordSegment(word_info, chunk_start_time_ms, speaker)
             segs == Append(b.segments, segment)
             next ==
                 IF Skipped(word_info) THEN b
                 ELSE [segments |-> segs,
                       metadata |-> UpdateMetadata(b.metadata, segs,
                                        segment.start_time, segment.end_time,
                                        speaker, segment.confidence)]
         IN  AddWords(next, Tail(word_segment_list), chunk_start_time_ms,
                      speaker)

\* any(abs(p - next_start_ms) < 150 for p in pause_points)
IsMajorPause(pause_points, next_start_ms) ==
    \E k \in 1..Len(pause_points) :
        Abs(pause_points[k] - next_start_ms) < PauseTolerance

\* is_new_speaker for the segment at index i (from 1)
IsNewSpeaker(segs, i) ==
    Truthy(segs[i].speaker)
    /\ (i = 1 \/ segs[i - 1].speaker # segs[i].speaker)

\* Word branch, one iteration up to the timing suffix: speaker tag, space,
\* word, start time
WordUnit(segs, fmt, i, t) ==
    LET segment == segs[i]
        new == IsNewSpeaker(segs, i)
        t1 == IF fmt = "detailed" /\ new
              THEN Cat(IF t # <<>> /\ ~EndsWithBreak(t)
                       THEN Cat(t, <<" ">>) ELSE t,
                       <<"\\", "n", "[", segment.speaker[1], "]", ":">>)
              ELSE t
        t2 == IF i > 1 /\ ~new /\ ~EndsWithBreak(t1)
              THEN Cat(t1, <<" ">>) ELSE t1
        t3 == Cat(t2, <<segment.word>>)
    IN  IF fmt = "detailed"
        THEN Cat(t3, <<" ", "[">> \o FormatSeconds(segment.start_time, 2)
                     \o <<"s", "]">>)
        ELSE t3

\* WordPunctuation with the two thresholds tested in the wrong order
WordPunctuationCommaFirst(pause_duration_ms) ==
    IF pause_duration_ms > WordCommaGap THEN <<",">>
    ELSE IF pause_duration_ms > WordPeriodGap THEN <<".">>
    ELSE <<>>

\* Word branch: the punctuation for a pause of pause_duration_ms
WordPunctuation(pause_duration_ms) ==
    IF pause_duration_ms > WordPeriodGap THEN <<".">>
    ELSE IF pause_duration_ms > WordCommaGap THEN <<",">>
    ELSE <<>>

\* ReadsNext testing "i <= len(self.segments) - 1 + 1"
ReadsNextPastEnd(segs, i) == i <= Len(segs)

\* "if i < len(self.segments) - 1" for the segment at index i (from 1):
\* the iteration reads self.segments[i+1]
ReadsNext(segs, i) == i < Len(segs)

\* Word branch: "Add punctuation based on pause after word"
WordPunct(segs, i, t) ==
    IF ReadsNext(segs, i)
    THEN Cat(t, WordPunctuation(segs[i + 1].start_time - segs[i].end_time))
    ELSE Cat(t, <<".">>)

\* The loop of the word branch of build_transcript: iterations i to n
\* (t is tested so that TLC evaluates it before the next iteration)
RECURSIVE WordLoop(_, _, _, _, _)
WordLoop(segs, fmt, i, n, t) ==
    IF i > n \/ Len(t) < 0 THEN t
    ELSE WordLoop(segs, fmt, i + 1, n,
                  WordPunct(segs, i, WordUnit(segs, fmt, i, t)))

\* Chunk branch, one iteration up to the timing suffix: speaker tag, space,
\* text, start time
ChunkUnit(segs, fmt, i, t) ==
    LET segment == segs[i]
        new == IsNewSpeaker(segs, i)
        t1 == IF fmt = "detailed" /\ new
              THEN Cat(IF t # <<>> /\ ~EndsWithBreak(t)
                       THEN Cat(t, <<" ">>) ELSE t,
                       <<"\\", "n", "[", segment.speaker[1], "]", ":", " ">>)
              ELSE t
        t2 == IF i > 1 /\ ~new /\ ~EndsWithBreak(t1)
              THEN Cat(t1, <<" ">>) ELSE t1
        t3 == Cat(t2, <<segment.text>>)
    IN  IF fmt = "detailed"
        THEN Cat(t3, <<" ", "[">> \o FormatSeconds(segment.start_time, 1)
                     \o <<"s", "]">>)
        ELSE t3

\* Chunk branch: the separator after a segment that is not the last
ChunkSeparator(pause_points, end_time_ms, next_start_ms) ==
    LET pause_duration_ms == next_start_ms - end_time_ms
    IN  IF IsMajorPause(pause_points, next_start_ms)
           \/ pause_duration_ms > ChunkMajorGap
        THEN <<".", "\\", "n">>
        ELSE IF pause_duration_ms > ChunkPeriodGap
        THEN <<".", " ">>
        ELSE <<",", " ">>

\* The punctuation of the chunk branch without the final period
ChunkPunctNoFinalPeriod(segs, pause_points, i, t) ==
    IF ReadsNext(segs, i)
    THEN Cat(t, ChunkSeparator(pause_points, segs[i].end_time,
                               segs[i + 1].start_time))
    ELSE t

\* Chunk branch: "Punctuation based on pauses between chunks"
ChunkPunct(segs, pause_points, i, t) ==
    IF ReadsNext(segs, i)
    THEN Cat(t, ChunkSeparator(pause_points, segs[i].end_time,
                               segs[i + 1].start_time))
    ELSE Cat(t, <<".">>)

\* The loop of the chunk branch of build_transcript: iterations i to n
\* (t is tested so that TLC evaluates it before the next iteration)
RECURSIVE ChunkLoop(_, _, _, _, _, _)
ChunkLoop(segs, pause_points, fmt, i, n, t) ==
    IF i > n \/ Len(t) < 0 THEN t
    ELSE ChunkLoop(segs, pause_points, fmt, i + 1, n,
                   ChunkPunct(segs, pause_points, i,
                              ChunkUnit(segs, fmt, i, t)))

\* The fields " ".join reads in "raw" format
Texts(segs, g) ==
    [k \in 1..Len(segs) |->
        IF g = "word" THEN segs[k].word ELSE segs[k].text]

\* build_transcript without the early return, the final period added after
\* the loop
build_transcript_period_after_loop(g, segs, md, fmt) ==
    IF fmt = "raw" THEN JoinSpace(Texts(segs, g))
    ELSE IF segs = <<>> THEN Strip(Cat(<<>>, <<".">>))
    ELSE IF g = "word" THEN Strip(WordLoop(segs, fmt, 1, Len(segs), <<>>))
    ELSE Strip(ChunkLoop(segs, md.pause_points, fmt, 1, Len(segs), <<>>))

\* What build_transcript(format_type) raises: IndexError if an iteration
\* of its loop reads a segment past the end of the list
build_transcript_raises(segs, fmt) ==
    IF /\ segs # <<>>
       /\ fmt # "raw"
       /\ \E i \in 1..Len(segs) : ReadsNext(segs, i) /\ i + 1 > Len(segs)
    THEN "IndexError"
    ELSE "None"

\* What build_transcript(format_type) returns
build_transcript(g, segs, md, fmt) ==
    IF segs = <<>> THEN <<>>
    ELSE IF fmt = "raw" THEN JoinSpace(Texts(segs, g))
    ELSE IF g = "word" THEN Strip(WordLoop(segs, fmt, 1, Len(segs), <<>>))
    ELSE Strip(ChunkLoop(segs, md.pause_points, fmt, 1, Len(segs), <<>>))

\* get_metadata averaging over every segment, a missing confidence as 0
get_metadata_mean_over_segments(g, segs, md) ==
    LET valid_scores == SelectSeq(md.confidence_scores, LAMBDA c : c # None)
        avg_conf ==
            IF md.confidence_scores # <<>> /\ valid_scores # <<>>
            THEN Some(<<SumSeq([k \in 1..Len(valid_scores) |->
                                   valid_scores[k][1]]),
                        Len(segs)>>)
            ELSE None
    IN  [granularity |-> g,
         duration_seconds |-> <<md.total_duration, 1000>>,
         pause_count |-> Len(md.pause_points),
         speaker_changes |-> Len(md.speaker_changes),
         average_confidence |-> avg_conf,
         segment_count |-> Len(segs)]

\* What get_metadata() returns
get_metadata(g, segs, md) ==
    LET valid_scores == SelectSeq(md.confidence_scores, LAMBDA c : c # None)
        avg_conf ==
            IF md.confidence_scores # <<>> /\ valid_scores # <<>>
            THEN Some(<<SumSeq([k \in 1..Len(valid_scores) |->
                                   valid_scores[k][1]]),
                        Len(valid_scores)>>)
            ELSE None
    IN  [granularity |-> g,
         duration_seconds |-> <<md.total_duration, 1000>>,
         pause_count |-> Len(md.pause_points),
         speaker_changes |-> Len(md.speaker_changes),
         average_confidence |-> avg_conf,
         segment_count |-> Len(segs)]

\* "pause_after_ms > 1000" of get_segments_for_llm
LlmMajorGap == 1000

\* get_segments_for_llm: the word segments themselves, or one record per
\* chunk segment with the pause that follows it (the pause-point test is
\* the expression of build_transcript, repeated at lines 261-264)
get_segments_for_llm(g, segs, md) ==
    IF g = "word" THEN segs
    ELSE [i \in 1..Len(segs) |->
            LET pause_after_ms ==
                    IF i < Len(segs)
                    THEN Some(segs[i + 1].start_time - segs[i].end_time)
                    ELSE None
                is_major_pause_after ==
                    /\ i < Len(segs)
                    /\ IsMajorPause(md.pause_points, segs[i + 1].start_time)
            IN  [text |-> segs[i].text,
                 start_time |-> segs[i].start_time,
                 end_time |-> segs[i].end_time,
                 speaker |-> segs[i].speaker,
                 pause_after_ms |-> pause_after_ms,
                 is_major_pause |->
                     \/ is_major_pause_after
                     \/ /\ pause_after_ms # None
                        /\ pause_after_ms[1] > LlmMajorGap]]

-----------------------------------------------------------------------------
(* Operations of the builder.  Every call records its name and what it     *)
(* raised; an append forgets the last built transcript.                    *)

Called(name, exc) ==
    /\ op' = name
    /\ raised' = exc

NoTranscript ==
    /\ format_type' = "none"
    /\ transcript' = <<>>

\* add_chunk_segment with the granularity test made after total_duration
\* is updated
AddChunkSegmentLateCheck(text, start_time, end_time, speaker, confidence) ==
    /\ NoTranscript
    /\ meta' = None
    /\ UNCHANGED <<granularity, audioVars, recognizerVars, mainVars>>
    /\ IF granularity # "chunk"
       THEN /\ Called("add_chunk_segment", "TypeError")
            /\ metadata' = [metadata EXCEPT
                               !.total_duration = Max(@, end_time)]
            /\ UNCHANGED segments
       ELSE /\ Len(segments) < MaxSegments
            /\ Called("add_chunk_segment", "None")
            /\ segments' = Append(segments,
                   ChunkSegment(text, start_time, end_time, speaker,
                                confidence))
            /\ metadata' = UpdateMetadata(metadata, segments', start_time,
                               end_time, speaker, confidence)

\* add_chunk_segment refusing the call that follows a build_transcript
AddChunkSegmentClosed(text, start_time, end_time, speaker, confidence) ==
    /\ NoTranscript
    /\ meta' = None
    /\ UNCHANGED <<granularity, audioVars, recognizerVars, mainVars>>
    /\ IF granularity # "chunk" \/ op = "build_transcript"
       THEN /\ Called("add_chunk_segment", "TypeError")
            /\ UNCHANGED <<segments, metadata>>
       ELSE /\ Len(segments) < MaxSegments
            /\ Called("add_chunk_segment", "None")
            /\ segments' = Append(segments,
                   ChunkSegment(text, start_time, end_time, speaker,
                                confidence))
            /\ metadata' = UpdateMetadata(metadata, segments', start_time,
                               end_time, speaker, confidence)

AddChunkSegment(text, start_time, end_time, speaker, confidence) ==
    /\ NoTranscript
    /\ meta' = None
    /\ UNCHANGED <<granularity, audioVars, recognizerVars, mainVars>>
    /\ IF granularity # "chunk"
       THEN /\ Called("add_chunk_segment", "TypeError")
            /\ UNCHANGED <<segments, metadata>>
       ELSE /\ Len(segments) < MaxSegments
            /\ Called("add_chunk_segment", "None")
            /\ segments' = Append(segments,
                   ChunkSegment(text, start_time, end_time, speaker,
                                confidence))
            /\ metadata' = UpdateMetadata(metadata, segments', start_time,
                               end_time, speaker, confidence)

\* add_word_segments storing the batch in place of the segments held
AddWordSegmentsReplacing(word_segment_list, chunk_start_time_ms, speaker) ==
    /\ NoTranscript
    /\ meta' = None
    /\ UNCHANGED <<granularity, audioVars, recognizerVars, mainVars>>
    /\ IF granularity # "word"
       THEN /\ Called("add_word_segments", "TypeError")
            /\ UNCHANGED <<segments, metadata>>
       ELSE LET b == AddWords([segments |-> <<>>, metadata |-> metadata],
                              word_segment_list, chunk_start_time_ms, speaker)
            IN  /\ Len(b.segments) <= MaxSegments
                /\ Called("add_word_segments", "None")
                /\ segments' = b.segments
                /\ metadata' = b.metadata

AddWordSegments(word_segment_list, chunk_start_time_ms, speaker) ==
    /\ NoTranscript
    /\ meta' = None
    /\ UNCHANGED <<granularity, audioVars, recognizerVars, mainVars>>
    /\ IF granularity # "word"
       THEN /\ Called("add_word_segments", "TypeError")
            /\ UNCHANGED <<segments, metadata>>
       ELSE LET b == AddWords([segments |-> segments, metadata |-> metadata],
                              word_segment_list, chunk_start_time_ms, speaker)
            IN  /\ Len(b.segments) <= MaxSegments
                /\ Called("add_word_segments", "None")
                /\ segments' = b.segments
                /\ metadata' = b.metadata

\* add_pause_point that drops a timestamp the list already holds
AddPausePointDeduplicating(timestamp_ms) ==
    /\ Len(metadata.pause_points) < MaxPauses
    /\ Called("add_pause_point", "None")
    /\ NoTranscript
    /\ meta' = None
    /\ metadata' = IF \E k \in 1..Len(metadata.pause_points) :
                         metadata.pause_points[k] = timestamp_ms
                   THEN metadata
                   ELSE [metadata EXCEPT
                            !.pause_points = Append(@, timestamp_ms)]
    /\ UNCHANGED <<granularity, segments, audioVars, recognizerVars,
                   mainVars>>

AddPausePoint(timestamp_ms) ==
    /\ Len(metadata.pause_points) < MaxPauses
    /\ Called("add_pause_point", "None")
    /\ NoTranscript
    /\ meta' = None
    /\ metadata' = [metadata EXCEPT !.pause_points = Append(@, timestamp_ms)]
    /\ UNCHANGED <<granularity, segments, audioVars, recognizerVars,
                   mainVars>>

\* build_transcript consuming the segments it has read
BuildTranscriptConsuming(fmt) ==
    /\ Called("build_transcript", "None")
    /\ format_type' = fmt
    /\ transcript' = build_transcript(granularity, segments, metadata, fmt)
    /\ meta' = None
    /\ segments' = <<>>
    /\ UNCHANGED <<granularity, metadata, audioVars, recognizerVars,
                   mainVars>>

BuildTranscript(fmt) ==
    /\ Called("build_transcript", build_transcript_raises(segments, fmt))
    /\ format_type' = fmt
    /\ transcript' = IF raised' = "None"
                     THEN build_transcript(granularity, segments, metadata,
                                           fmt)
                     ELSE <<>>
    /\ meta' = None
    /\ UNCHANGED <<builderVars, audioVars, recognizerVars, mainVars>>

GetMetadata ==
    /\ Called("get_metadata", "None")
    /\ meta' = Some(get_metadata(granularity, segments, metadata))
    /\ UNCHANGED <<format_type, transcript, builderVars, audioVars,
                   recognizerVars, mainVars>>

GetSegmentsForLlm ==
    /\ Called("get_segments_for_llm", "None")
    /\ meta' = Some(get_segments_for_llm(granularity, segments, metadata))
    /\ UNCHANGED <<format_type, transcript, builderVars, audioVars,
                   recognizerVars, mainVars>>

-----------------------------------------------------------------------------
(* Sample inputs.  Chunk calls: gaps of 200, 600, 1200 and more between    *)
(* consecutive samples, each speaker transition, confidence present and    *)
(* absent.  Word calls: the units of two chunks, a batch with units to     *)
(* skip, a batch whose second word starts 50 ms from a pause point.        *)

ChunkCalls ==
    { [text |-> "a", start_time |-> 0, end_time |-> 1000,
       speaker |-> None, confidence |-> Some(90)],
      [text |-> " b ", start_time |-> 1200, end_time |-> 2200,
       speaker |-> Some("S1"), confidence |-> None],
      [text |-> "a", start_time |-> 2200, end_time |-> 3200,
       speaker |-> Some("S1"), confidence |-> Some(70)],
      [text |-> "b", start_time |-> 2400, end_time |-> 3400,
       speaker |-> Some("S2"), confidence |-> Some(90)],
      [text |-> "a", start_time |-> 2800, end_time |-> 3800,
       speaker |-> None, confidence |-> None] }

Unit(w, s, e, c) == [word |-> w, start |-> s, end |-> e, confidence |-> c]

WordCalls ==
    { [words |-> <<Unit("hello", Some(0), Some(4), Some(90)),
                   Unit("world", Some(5), Some(9), None)>>,
       chunk_start |-> 0, speaker |-> None],
      [words |-> <<Unit("there", Some(0), Some(3), Some(70))>>,
       chunk_start |-> 30000, speaker |-> None],
      [words |-> <<Unit("x", Some(15), Some(20), Some(90)),
                   Unit("y", Some(21), None, Some(70)),
                   Unit(" ", Some(0), Some(1), None)>>,
       chunk_start |-> 5000, speaker |-> Some("S1")],
      [words |-> <<Unit("so", Some(14), Some(21), None),
                   Unit("now", Some(23), Some(26), Some(70))>>,
       chunk_start |-> 0, speaker |-> None],
      [words |-> <<Unit("there", Some(0), Some(3), None)>>,
       chunk_start |-> 30000, speaker |-> Some("S2")] }

PausePoints == {2350, 29800}

-----------------------------------------------------------------------------
(* The builder under the calls of a direct caller *)

\* No SpeechRecognizer has been constructed
NoRecognizer ==
    /\ recognizer = None
    /\ temp_files = {}
    /\ result = None

\* main is not running
NoRun ==
    /\ pc = "none"
    /\ pause_timestamps = <<>>
    /\ current_time_ms = 0
    /\ results = <<>>
    /\ stderr = <<>>

Init ==
    /\ \E g \in {"chunk", "word"} : NewBuilder(g)
    /\ op = "__init__"
    /\ raised = "None"
    /\ format_type = "none"
    /\ transcript = <<>>
    /\ meta = None
    /\ audio = None
    /\ silence = NotAnalysed
    /\ chunk_size = 1
    /\ chunks = None
    /\ NoRecognizer
    /\ NoRun

Next ==
    \/ \E c \in ChunkCalls :
          AddChunkSegment(c.text, c.start_time, c.end_time, c.speaker,
                          c.confidence)
    \/ \E w \in WordCalls :
          AddWordSegments(w.words, w.chunk_start, w.speaker)
    \/ \E p \in PausePoints : AddPausePoint(p)
    \/ \E fmt \in Formats : BuildTranscript(fmt)
    \/ GetMetadata
    \/ GetSegmentsForLlm

Spec == Init /\ [][Next]_vars

-----------------------------------------------------------------------------
(* AudioProcessor.  A loaded AudioSegment is its duration len(audio) in    *)
(* ms; a slice of it is the range it covers.                               *)

\* Slice without the clamp of hi to the end of the audio
SliceUnclamped(duration_ms, lo, hi) == [start |-> lo, duration |-> hi - lo]

\* audio[lo:hi] of an AudioSegment of duration_ms, for 0 <= lo < duration_ms
Slice(duration_ms, lo, hi) ==
    [start |-> lo, duration |-> Min(hi, duration_ms) - lo]

\* The loop of get_chunks: for i in range(i, duration_ms, size)
RECURSIVE ChunksFrom(_, _, _)
ChunksFrom(duration_ms, size, i) ==
    IF i >= duration_ms THEN <<>>
    ELSE <<Slice(duration_ms, i, i + size)>>
         \o ChunksFrom(duration_ms, size, i + size)

\* "not self.audio": None, or an AudioSegment of length 0
NotLoaded(a) == a = None \/ a[1] = 0

\* load_audio: AudioSegment.from_file returns a segment of duration_ms, or
\* raises (ok false), which load_audio catches, leaving self.audio as it was
LoadAudio(ok, duration_ms) ==
    /\ op' = "load_audio"
    /\ raised' = "None"
    /\ audio' = IF ok THEN Some(duration_ms) ELSE audio
    /\ chunks' = None
    /\ UNCHANGED <<silence, chunk_size, builderVars, format_type,
                   transcript, meta, recognizerVars, mainVars>>

GetChunks ==
    /\ op' = "get_chunks"
    /\ IF NotLoaded(audio)
       THEN /\ raised' = "ValueError"
            /\ chunks' = None
       ELSE /\ raised' = "None"
            /\ chunks' = Some(ChunksFrom(audio[1], chunk_size, 0))
    /\ UNCHANGED <<audio, silence, chunk_size, builderVars, format_type,
                   transcript, meta, recognizerVars, mainVars>>

InitChunker ==
    /\ NewBuilder("chunk")
    /\ op = "__init__"
    /\ raised = "None"
    /\ format_type = "none"
    /\ transcript = <<>>
    /\ meta = None
    /\ audio = None
    /\ silence = NotAnalysed
    /\ chunk_size \in 1..MaxChunkSize
    /\ chunks = None
    /\ NoRecognizer
    /\ NoRun

NextChunker ==
    \/ \E d \in 0..MaxDuration : LoadAudio(TRUE, d)
    \/ LoadAudio(FALSE, 0)
    \/ GetChunks

SpecChunker == InitChunker /\ [][NextChunker]_vars

-----------------------------------------------------------------------------
(* SpeechRecognizer.  What the vendor engine hands back is a record: kind  *)
(* "raise" (the engine call raised), "malformed" (a Whisper result that    *)
(* _format_result cannot read: it raises), "invalid_json" (a Vosk result   *)
(* that json.loads rejects) or "dict" (a well-formed native result).       *)
(* _format_result's quotient is held in hundredths like the confidences;   *)
(* the sample confidences make every quotient exact.                       *)

MaxTempFiles == 4

Engines == {"whisper", "vosk"}

\* The confidences of units that are not None ("if conf is not None")
NotNoneConfidences(units) ==
    LET present == SelectSeq(units, LAMBDA u : u.confidence # None)
    IN  [k \in 1..Len(present) |-> present[k].confidence[1]]

\* The confidences of units that are truthy ('if s.get("confidence")')
TruthyConfidences(units) ==
    LET present == SelectSeq(units, LAMBDA u : u.confidence # None
                                                 /\ u.confidence[1] # 0)
    IN  [k \in 1..Len(present) |-> present[k].confidence[1]]

\* overall_confidence / word_count
Mean(total, count) == total \div count

\* " ".join(w["word"] for w in word_segments), over the sample words
JoinWords(words) ==
    CASE Len(words) = 1 -> words[1]
      [] words = <<"hello", "world">> -> "hello world"
      [] words = <<"so", "now">> -> "so now"

\* The unit _format_result stores for a word or a phrase
FormattedUnit(info) ==
    Unit(StripText(info.word), info.start, info.end, info.confidence)

\* Whisper: the words of every segment that carry both bounds, as units
RECURSIVE AlignedWords(_)
AlignedWords(whisper_segments) ==
    IF whisper_segments = <<>> THEN <<>>
    ELSE LET segment_words == Head(whisper_segments).words
             kept == IF segment_words = None THEN <<>>
                     ELSE SelectSeq(segment_words[1],
                              LAMBDA word_info : word_info.start # None
                                                 /\ word_info.end # None)
         IN  [k \in 1..Len(kept) |-> FormattedUnit(kept[k])]
             \o AlignedWords(Tail(whisper_segments))

\* Whisper: the phrase segments as units (the fallback of chunk granularity)
PhraseUnits(whisper_segments) ==
    [k \in 1..Len(whisper_segments) |-> FormattedUnit(whisper_segments[k])]

\* _format_result, engine "whisper", recognizer granularity g
format_whisper(g, res) ==
    LET whisper_segments == res.segments
        aligned == AlignedWords(whisper_segments)
        found_word_level_data ==
            \E k \in 1..Len(whisper_segments) :
                /\ whisper_segments[k].words # None
                /\ whisper_segments[k].words[1] # <<>>
        fallback == /\ g # "word"
                    /\ ~found_word_level_data
                    /\ whisper_segments # <<>>
                    /\ whisper_segments[1].start # None
        phrases == PhraseUnits(whisper_segments)
        word_segments ==
            IF g = "word" THEN aligned
            ELSE IF fallback THEN phrases
            ELSE IF aligned = <<>>
            THEN <<Unit(res.text, None, None, None)>>
            ELSE aligned
        overall_confidence ==
            IF fallback THEN SumSeq(TruthyConfidences(phrases))
            ELSE SumSeq(NotNoneConfidences(aligned))
        word_count ==
            IF fallback THEN Len(phrases)
            ELSE IF g # "word" /\ aligned = <<>> THEN 1
            ELSE Len(NotNoneConfidences(aligned))
    IN  [text |-> res.text,
         error |-> None,
         confidence |-> IF word_count > 0
                        THEN Mean(overall_confidence, word_count) ELSE 0,
         segments |-> word_segments]

\* _format_result, engine "vosk"
format_vosk(res) ==
    IF res.kind = "invalid_json"
    THEN [text |-> "", error |-> None, confidence |-> 0, segments |-> <<>>]
    ELSE LET listed == res.result # None
             kept == IF listed
                     THEN SelectSeq(res.result[1],
                                    LAMBDA word_info : word_info.start # None)
                     ELSE <<>>
             word_segments ==
                 IF listed
                 THEN [k \in 1..Len(kept) |-> FormattedUnit(kept[k])]
                 ELSE <<Unit(res.text, None, None, None)>>
             full_text ==
                 IF listed /\ word_segments # <<>>
                 THEN JoinWords([k \in 1..Len(word_segments) |->
                                    word_segments[k].word])
                 ELSE res.text
         IN  [text |-> full_text,
              error |-> None,
              confidence |->
                  IF word_segments # <<>>
                  THEN Mean(SumSeq(TruthyConfidences(word_segments)),
                            Len(word_segments))
                  ELSE 0,
              segments |-> word_segments]

\* _format_result(result)
format_result(rec, res) ==
    IF rec.engine = "whisper" THEN format_whisper(rec.granularity, res)
    ELSE format_vosk(res)

\* The dict of the except clause of transcribe_audio
ErrorResult(e) ==
    [text |-> "", error |-> Some(e), confidence |-> 0, segments |-> <<>>]

\* transcribe_audio(audio_segment): what it raises, whether it reached
\* os.unlink, what it returns.  export_ok: audio_segment.export returned;
\* native: what the engine did.
transcribe_audio(rec, export_ok, native) ==
    IF ~export_ok
    THEN [raised |-> "None", unlinked |-> FALSE,
          result |-> ErrorResult("export")]
    ELSE IF native.kind = "raise"
    THEN [raised |-> "None", unlinked |-> FALSE,
          result |-> ErrorResult("engine")]
    ELSE IF native.kind = "malformed"
    THEN [raised |-> "None", unlinked |-> TRUE,
          result |-> ErrorResult("format")]
    ELSE [raised |-> "None", unlinked |-> TRUE,
          result |-> format_result(rec, native)]

\* The name tempfile.NamedTemporaryFile picks: one that no file has
TempName(files) ==
    CHOOSE n \in 1..(Cardinality(files) + 1) :
        /\ n \notin files
        /\ \A m \in 1..(n - 1) : m \in files

\* The temporary files after a call that did or did not reach os.unlink
TempFilesAfter(files, unlinked) ==
    IF unlinked THEN files ELSE files \cup {TempName(files)}

(* Sample engine results: word alignment with a confidence missing,        *)
(* phrase segments only, no segments, silence, a unit without an end and   *)
(* a blank word, and the failures.                                         *)

\* A Whisper phrase segment; `word` holds its "text"
WhisperSegment(text, s, e, c, words) ==
    [word |-> text, start |-> s, end |-> e, confidence |-> c,
     words |-> words]

WhisperResults ==
    { [kind |-> "dict", text |-> "hello world",
       segments |-> <<WhisperSegment("hello world", Some(0), Some(9), None,
           Some(<<Unit("hello", Some(0), Some(4), Some(90)),
                  Unit("world", Some(5), Some(9), None)>>))>>],
      [kind |-> "dict", text |-> "so now",
       segments |-> <<WhisperSegment("so", Some(14), Some(21), Some(90),
                                     None),
                      WhisperSegment("now", Some(23), Some(26), None,
                                     None)>>],
      [kind |-> "dict", text |-> "there", segments |-> <<>>],
      [kind |-> "dict", text |-> "", segments |-> <<>>],
      [kind |-> "dict", text |-> "there",
       segments |-> <<WhisperSegment(" b ", Some(0), Some(3), Some(70),
           Some(<<Unit("there", Some(0), Some(3), Some(70))>>))>>],
      [kind |-> "dict", text |-> "x",
       segments |-> <<WhisperSegment("x", Some(15), Some(30), None,
           Some(<<Unit("x", Some(15), Some(20), Some(90)),
                  Unit("y", Some(21), None, Some(70)),
                  Unit(" ", Some(0), Some(1), None)>>))>>],
      [kind |-> "malformed"],
      [kind |-> "raise"] }

VoskResults ==
    { [kind |-> "dict", text |-> "hello world",
       result |-> Some(<<Unit("hello", Some(0), Some(4), Some(90)),
                         Unit("world", Some(5), Some(9), None)>>)],
      [kind |-> "dict", text |-> "there", result |-> None],
      [kind |-> "dict", text |-> "", result |-> None],
      [kind |-> "dict", text |-> "there",
       result |-> Some(<<Unit("there", Some(0), Some(3), Some(70))>>)],
      [kind |-> "dict", text |-> "so now",
       result |-> Some(<<Unit("so", Some(14), Some(21), Some(90)),
                         Unit("now", Some(23), Some(26), Some(70))>>)],
      [kind |-> "invalid_json"],
      [kind |-> "raise"] }

EngineResults(rec) ==
    IF rec.engine = "whisper" THEN WhisperResults ELSE VoskResults

\* transcribe_audio called on the recognizer
TranscribeAudio(export_ok, native) ==
    /\ recognizer # None
    /\ native \in EngineResults(recognizer[1])
    /\ Cardinality(temp_files) < MaxTempFiles
    /\ LET call == transcribe_audio(recognizer[1], export_ok, native)
       IN  /\ Called("transcribe_audio", call.raised)
           /\ result' = Some(call.result)
           /\ temp_files' = TempFilesAfter(temp_files, call.unlinked)
    /\ UNCHANGED <<recognizer, builderVars, format_type, transcript, meta,
                   audioVars, mainVars>>

\* __init__(engine, granularity) having loaded its model
InitRecognizer ==
    /\ NewBuilder("chunk")
    /\ op = "__init__"
    /\ raised = "None"
    /\ format_type = "none"
    /\ transcript = <<>>
    /\ meta = None
    /\ audio = None
    /\ silence = NotAnalysed
    /\ chunk_size = 1
    /\ chunks = None
    /\ \E e \in Engines, g \in {"chunk", "word"} :
          recognizer = Some([engine |-> e, granularity |-> g])
    /\ temp_files = {}
    /\ result = None
    /\ NoRun

NextRecognizer ==
    \E export_ok \in BOOLEAN, native \in WhisperResults \cup VoskResults :
        TranscribeAudio(export_ok, native)

SpecRecognizer == InitRecognizer /\ [][NextRecognizer]_vars

-----------------------------------------------------------------------------
(* main: the run over one audio file, from "Audio Processing" to the       *)
(* builder's metadata (lines 143-238), without LLM supervision.  An        *)
(* exception that reaches the handler of line 299 ends the run: pc is      *)
(* "aborted" and raised names it.                                          *)

CHUNK_SIZE == 30000

\* A quotient a / b of Python, held as the pair <<a, b>>; the integer 0
\* that get_speech_segments starts from is <<0, 1>>
Quotient(a, b) == <<a, b>>
Less(x, y) == x[1] * y[2] < y[1] * x[2]
Same(x, y) == x[1] * y[2] = y[1] * x[2]

\* detect_pauses returning the start of each range in seconds
detect_pauses_range_start(found) ==
    IF found.raised THEN <<>>
    ELSE [k \in 1..Len(found.ranges) |-> Quotient(found.ranges[k][1], 1000)]

\* PauseDetector.detect_pauses: the midpoint (start + end) / 2000 of each
\* silence range, in seconds; [] if detect_silence raises
detect_pauses(found) ==
    IF found.raised THEN <<>>
    ELSE [k \in 1..Len(found.ranges) |->
            Quotient(found.ranges[k][1] + found.ranges[k][2], 2000)]

\* PauseDetector.get_pause_ranges: (start/1000, end/1000) of each silence
\* range; [] if detect_silence raises
get_pause_ranges(found) ==
    IF found.raised THEN <<>>
    ELSE [k \in 1..Len(found.ranges) |->
            <<Quotient(found.ranges[k][1], 1000),
              Quotient(found.ranges[k][2], 1000)>>]

\* The loop of get_speech_segments over pause_ranges[k..]: the speech
\* segments and current_pos after it
RECURSIVE SpeechLoop(_, _, _, _)
SpeechLoop(pause_ranges, k, current_pos, speech_segments) ==
    IF k > Len(pause_ranges)
    THEN [current_pos |-> current_pos, speech_segments |-> speech_segments]
    ELSE SpeechLoop(pause_ranges, k + 1, pause_ranges[k][2],
                    IF Less(current_pos, pause_ranges[k][1])
                    THEN Append(speech_segments,
                                <<current_pos, pause_ranges[k][1]>>)
                    ELSE speech_segments)

\* get_speech_segments without "Add final segment if needed"
get_speech_segments_no_final(found, duration_ms) ==
    SpeechLoop(get_pause_ranges(found), 1, Quotient(0, 1),
               <<>>).speech_segments

\* PauseDetector.get_speech_segments on audio of duration_ms
get_speech_segments(found, duration_ms) ==
    LET after == SpeechLoop(get_pause_ranges(found), 1, Quotient(0, 1), <<>>)
        duration == Quotient(duration_ms, 1000)
    IN  IF Less(after.current_pos, duration)
        THEN Append(after.speech_segments, <<after.current_pos, duration>>)
        ELSE after.speech_segments

\* add_chunk_segment on the builder b: what it raises and the builder after
add_chunk_segment(b, text, start_time, end_time, speaker, confidence) ==
    IF b.granularity # "chunk"
    THEN [raised |-> "TypeError", segments |-> b.segments,
          metadata |-> b.metadata]
    ELSE LET segs == Append(b.segments,
                         ChunkSegment(text, start_time, end_time, speaker,
                                      confidence))
         IN  [raised |-> "None", segments |-> segs,
              metadata |-> UpdateMetadata(b.metadata, segs, start_time,
                               end_time, speaker, confidence)]

\* "Add to transcript based on granularity" (lines 191-207) for the result
\* res of the chunk at current_time_ms: what is raised, the builder after,
\* what is printed to stderr
AddToTranscript(b, res, start_time_ms, end_time_ms) ==
    IF res.text # ""
    THEN IF b.granularity = "word"
         THEN IF res.segments # <<>> /\ res.segments[1].start # None
              THEN LET after == AddWords([segments |-> b.segments,
                                          metadata |-> b.metadata],
                                         res.segments, start_time_ms, None)
                   IN  [raised |-> "None", segments |-> after.segments,
                        metadata |-> after.metadata, printed |-> <<>>]
              ELSE LET after == add_chunk_segment(b, res.text, start_time_ms,
                                    end_time_ms, None, Some(res.confidence))
                   IN  [raised |-> after.raised, segments |-> after.segments,
                        metadata |-> after.metadata,
                        printed |-> <<"Warning">>]
         ELSE LET after == add_chunk_segment(b, res.text, start_time_ms,
                               end_time_ms, None, Some(res.confidence))
              IN  [raised |-> after.raised, segments |-> after.segments,
                   metadata |-> after.metadata, printed |-> <<>>]
    ELSE [raised |-> "None", segments |-> b.segments,
          metadata |-> b.metadata,
          printed |-> IF res.error # None THEN <<"Error">> ELSE <<>>]

\* Lines 143-181: load the audio, detect the pauses, construct the
\* recognizer and the builder, split the audio into chunks
MainSetup(load_ok, duration_ms, silence_ranges, e, g) ==
    /\ pc = "start"
    /\ op' = "main"
    /\ audio' = IF load_ok THEN Some(duration_ms) ELSE audio
    /\ UNCHANGED <<chunk_size, temp_files, result, format_type, transcript,
                   meta, current_time_ms, results, stderr>>
    /\ IF audio' = None
       THEN /\ pc' = "exit"
            /\ raised' = "None"
            /\ UNCHANGED <<builderVars, chunks, recognizer, silence,
                           pause_timestamps>>
       ELSE /\ silence' = Found(silence_ranges)
            /\ pause_timestamps' = detect_pauses(silence')
            /\ recognizer' = Some([engine |-> e, granularity |-> g])
            /\ granularity' = g
            /\ segments' = <<>>
            /\ metadata' = [total_duration |-> 0,
                            pause_points |-> <<>>,
                            speaker_changes |-> <<>>,
                            confidence_scores |-> <<>>]
            /\ IF NotLoaded(audio')
               THEN /\ raised' = "ValueError"
                    /\ chunks' = None
                    /\ pc' = "aborted"
               ELSE /\ raised' = "None"
                    /\ chunks' = Some(ChunksFrom(audio'[1], chunk_size, 0))
                    /\ pc' = "loop"

\* The iteration of the chunk loop with the offset advanced only past a
\* chunk that was transcribed
MainChunkAdvanceOnSuccess(export_ok, native) ==
    /\ pc = "loop"
    /\ Len(results) < Len(chunks[1])
    /\ native \in EngineResults(recognizer[1])
    /\ LET chunk == chunks[1][Len(results) + 1]
           call == transcribe_audio(recognizer[1], export_ok, native)
           end_time_ms == current_time_ms + chunk.duration
           added == AddToTranscript([granularity |-> granularity,
                                     segments |-> segments,
                                     metadata |-> metadata],
                                    call.result, current_time_ms, end_time_ms)
       IN  /\ op' = "main"
           /\ raised' = added.raised
           /\ result' = Some(call.result)
           /\ temp_files' = TempFilesAfter(temp_files, call.unlinked)
           /\ segments' = added.segments
           /\ metadata' = added.metadata
           /\ results' = Append(results, call.result)
           /\ stderr' = stderr \o added.printed
           /\ IF added.raised = "None"
              THEN /\ pc' = "loop"
                   /\ current_time_ms' = IF call.result.error = None
                                         THEN end_time_ms
                                         ELSE current_time_ms
              ELSE /\ pc' = "aborted"
                   /\ current_time_ms' = current_time_ms
    /\ UNCHANGED <<granularity, audioVars, recognizer, pause_timestamps,
                   format_type, transcript, meta>>

\* One iteration of the chunk loop (lines 184-209)
MainChunk(export_ok, native) ==
    /\ pc = "loop"
    /\ Len(results) < Len(chunks[1])
    /\ native \in EngineResults(recognizer[1])
    /\ LET chunk == chunks[1][Len(results) + 1]
           call == transcribe_audio(recognizer[1], export_ok, native)
           end_time_ms == current_time_ms + chunk.duration
           added == AddToTranscript([granularity |-> granularity,
                                     segments |-> segments,
                                     metadata |-> metadata],
                                    call.result, current_time_ms, end_time_ms)
       IN  /\ op' = "main"
           /\ raised' = added.raised
           /\ result' = Some(call.result)
           /\ temp_files' = TempFilesAfter(temp_files, call.unlinked)
           /\ segments' = added.segments
           /\ metadata' = added.metadata
           /\ results' = Append(results, call.result)
           /\ stderr' = stderr \o added.printed
           /\ IF added.raised = "None"
              THEN /\ pc' = "loop"
                   /\ current_time_ms' = end_time_ms
              ELSE /\ pc' = "aborted"
                   /\ current_time_ms' = current_time_ms
    /\ UNCHANGED <<granularity, audioVars, recognizer, pause_timestamps,
                   format_type, transcript, meta>>

\* After the loop: build_transcript() and get_metadata() (lines 214, 238)
MainFinish ==
    /\ pc = "loop"
    /\ Len(results) = Len(chunks[1])
    /\ op' = "main"
    /\ raised' = build_transcript_raises(segments, "simple")
    /\ IF raised' = "None"
       THEN /\ format_type' = "simple"
            /\ transcript' = build_transcript(granularity, segments,
                                              metadata, "simple")
            /\ meta' = Some(get_metadata(granularity, segments, metadata))
            /\ pc' = "done"
       ELSE /\ pc' = "aborted"
            /\ UNCHANGED <<format_type, transcript, meta>>
    /\ UNCHANGED <<builderVars, audioVars, recognizerVars, pause_timestamps,
                   current_time_ms, results, stderr>>

(* Sample runs: audio of no, one, two and three chunks; silence at the     *)
(* boundary of the first two chunks and inside the first.                  *)

AudioDurations == {0, 20000, 45000, 70000}

SilenceRanges ==
    { <<>>,
      << <<29500, 30100>> >>,
      << <<2000, 2700>>, <<29500, 30100>> >> }

\* main at "Audio Processing": AudioProcessor(path) is about to be made
InitMain ==
    /\ NewBuilder("chunk")
    /\ op = "__init__"
    /\ raised = "None"
    /\ format_type = "none"
    /\ transcript = <<>>
    /\ meta = None
    /\ audio = None
    /\ silence = NotAnalysed
    /\ chunk_size = CHUNK_SIZE
    /\ chunks = None
    /\ NoRecognizer
    /\ pc = "start"
    /\ pause_timestamps = <<>>
    /\ current_time_ms = 0
    /\ results = <<>>
    /\ stderr = <<>>

NextMain ==
    \/ \E load_ok \in BOOLEAN, d \in AudioDurations, r \in SilenceRanges,
          e \in Engines, g \in {"chunk", "word"} :
          MainSetup(load_ok, d, r, e, g)
    \/ \E export_ok \in BOOLEAN, native \in WhisperResults \cup VoskResults :
          MainChunk(export_ok, native)
    \/ MainFinish

SpecMain == InitMain /\ [][NextMain]_vars

-----------------------------------------------------------------------------
(* PauseDetector on one audio segment.  What detect_silence does with the  *)
(* audio is fixed by the audio: it raises, or it returns ranges that are   *)
(* sorted, non-empty, non-overlapping and inside the audio.                *)

Ranges(duration_ms) ==
    {r \in (0..duration_ms) \X (0..duration_ms) : r[1] < r[2]}

Analyses(duration_ms) ==
    {[raised |-> TRUE, ranges |-> <<>>]}
    \cup {Found(q) : q \in
            {q \in UNION {[1..n -> Ranges(duration_ms)] : n \in 0..MaxPauses} :
                \A k \in 1..(Len(q) - 1) : q[k][2] <= q[k + 1][1]}}

\* A call of PauseDetector: the except clauses let nothing out
PauseDetectorCall(name, returned) ==
    /\ Called(name, "None")
    /\ pause_timestamps' = returned
    /\ UNCHANGED <<builderVars, format_type, transcript, meta, audioVars,
                   recognizerVars, pc, current_time_ms, results, stderr>>

DetectPauses == PauseDetectorCall("detect_pauses", detect_pauses(silence))

GetPauseRanges ==
    PauseDetectorCall("get_pause_ranges", get_pause_ranges(silence))

GetSpeechSegments ==
    PauseDetectorCall("get_speech_segments",
                      get_speech_segments(silence, audio[1]))

InitPauses ==
    /\ NewBuilder("chunk")
    /\ op = "__init__"
    /\ raised = "None"
    /\ format_type = "none"
    /\ transcript = <<>>
    /\ meta = None
    /\ \E d \in 0..MaxDuration :
          /\ audio = Some(d)
          /\ silence \in Analyses(d)
    /\ chunk_size = CHUNK_SIZE
    /\ chunks = None
    /\ NoRecognizer
    /\ NoRun

NextPauses ==
    \/ DetectPauses
    \/ GetPauseRanges
    \/ GetSpeechSegments

SpecPauses == InitPauses /\ [][NextPauses]_vars

-----------------------------------------------------------------------------
(* Properties *)

\* The built transcript up to and including segment i's unit: its text
\* and, in "detailed" format, its speaker tag and start time
UnitPrefix(i) ==
    IF granularity = "word"
    THEN WordUnit(segments, format_type, i,
                  WordLoop(segments, format_type, 1, i - 1, <<>>))
    ELSE ChunkUnit(segments, format_type, i,
                   ChunkLoop(segments, metadata.pause_points, format_type, 1,
                             i - 1, <<>>))

\* The k pieces of the built transcript that follow segment i's unit
After(i, k) ==
    SubSeq(transcript, Len(UnitPrefix(i)) + 1,
           Min(Len(UnitPrefix(i)) + k, Len(transcript)))

\* next start_time minus this end_time, for segment i that is not the last
Gap(i) == segments[i + 1].start_time - segments[i].end_time

Built(fmts) == op = "build_transcript" /\ format_type \in fmts

\* max of the end times of segs, 0 if there is none
RECURSIVE MaxEnd(_)
MaxEnd(segs) ==
    IF segs = <<>> THEN 0 ELSE Max(segs[1].end_time, MaxEnd(Tail(segs)))

\* The confidences of the stored segments that are not None, in order
PresentConfidences(segs) ==
    LET present == SelectSeq(segs, LAMBDA sg : sg.confidence # None)
    IN  [k \in 1..Len(present) |-> present[k].confidence[1]]

\* (word, start_time, end_time) of each stored word segment
Timing(segs) ==
    [k \in 1..Len(segs) |->
        <<segs[k].word, segs[k].start_time, segs[k].end_time>>]

(* C1: for a loaded buffer of duration D > 0 and a chunk size S > 0,       *)
(* get_chunks returns chunks ordered by start offset, contiguous and       *)
(* non-overlapping, chunk k covering [k*S, min((k+1)*S, D)); every chunk   *)
(* but the last has duration S and the durations sum to D.                 *)
C1_ChunksPartitionBuffer ==
    (op = "get_chunks" /\ audio # None /\ audio[1] > 0) =>
        /\ raised = "None"
        /\ LET cs == chunks[1]
               D == audio[1]
               S == chunk_size
           IN  /\ Len(cs) >= 1
               /\ \A k \in 1..Len(cs) :
                     /\ cs[k].start = (k - 1) * S
                     /\ cs[k].start + cs[k].duration = Min(k * S, D)
                     /\ cs[k].duration > 0
               /\ \A k \in 1..(Len(cs) - 1) :
                     /\ cs[k].duration = S
                     /\ cs[k].start < cs[k + 1].start
                     /\ cs[k].start + cs[k].duration = cs[k + 1].start
               /\ SumSeq([k \in 1..Len(cs) |-> cs[k].duration]) = D

\* C1 witness: three chunks or more, the last one truncated
C1_Witness ==
    /\ op = "get_chunks"
    /\ raised = "None"
    /\ Len(chunks[1]) >= 3
    /\ chunks[1][Len(chunks[1])].duration < chunk_size

(* C2: build_transcript is a pure read: the call leaves granularity,       *)
(* segments and every metadata field as they were, and a call with the     *)
(* format of the last build since the last append returns the same string. *)
C2_BuildIsPureRead ==
    [][op' = "build_transcript" =>
          /\ UNCHANGED <<granularity, segments, metadata>>
          /\ (format_type' = format_type => transcript' = transcript)]_vars

\* C2 witness: a build over segments, pause points, speaker changes and
\* confidences
C2_Witness ==
    /\ op = "build_transcript"
    /\ Len(segments) >= 2
    /\ transcript # <<>>
    /\ metadata.pause_points # <<>>
    /\ metadata.speaker_changes # <<>>
    /\ metadata.confidence_scores # <<>>

(* C3: on a builder with no segments build_transcript returns the empty    *)
(* string, for each format, either granularity, with or without pause      *)
(* points.                                                                 *)
C3_EmptyBuilderBuildsEmpty ==
    (op = "build_transcript" /\ segments = <<>>) => transcript = <<>>

\* C3 witness: a detailed build of an empty word builder with a pause point
C3_Witness ==
    /\ Built({"detailed"})
    /\ segments = <<>>
    /\ granularity = "word"
    /\ metadata.pause_points # <<>>

C5_GranularityEnforced ==
    [][/\ (op' = "add_chunk_segment" /\ granularity = "word") =>
              (raised' = "TypeError" /\ UNCHANGED builderVars)
       /\ (op' = "add_word_segments" /\ granularity = "chunk") =>
              (raised' = "TypeError" /\ UNCHANGED builderVars)]_vars

\* C5 witness: add_chunk_segment has failed on a word builder that holds
\* segments and a pause point
C5_Witness ==
    /\ op = "add_chunk_segment"
    /\ raised = "TypeError"
    /\ granularity = "word"
    /\ segments # <<>>
    /\ metadata.pause_points # <<>>

(* C6: a word unit with relative bounds start and end (seconds) appended   *)
(* by add_word_segments with chunk_start_ms = c is stored with             *)
(* start_time = c + start*1000 and end_time = c + end*1000; c = 5000,      *)
(* start = 1.5, end = 2.0 gives 6500 and 7000.  (Bounds are in tenths of   *)
(* a second, so both sides are taken times 10.)                            *)
C6_WordTimesAbsolute ==
    [][\A w \in WordCalls :
          (granularity = "word"
           /\ AddWordSegments(w.words, w.chunk_start, w.speaker)) =>
              LET kept == SelectSeq(w.words, LAMBDA u : ~Skipped(u))
                  n == Len(segments)
              IN  /\ Len(segments') = n + Len(kept)
                  /\ \A k \in 1..Len(kept) :
                        /\ segments'[n + k].start_time * 10
                               = w.chunk_start * 10 + kept[k].start[1] * 1000
                        /\ segments'[n + k].end_time * 10
                               = w.chunk_start * 10 + kept[k].end[1] * 1000
                        /\ (w.chunk_start = 5000 /\ kept[k].start = Some(15)
                            /\ kept[k].end = Some(20)) =>
                               /\ segments'[n + k].start_time = 6500
                               /\ segments'[n + k].end_time = 7000]_vars

\* C6 witness: the unit 1.5-2.0 of a chunk at 5000 is stored at 6500-7000
C6_Witness ==
    /\ op = "add_word_segments"
    /\ raised = "None"
    /\ \E k \in 1..Len(segments) :
          /\ segments[k].word = "x"
          /\ segments[k].start_time = 6500
          /\ segments[k].end_time = 7000

(* C7: in a chunk builder with no pause points, between two consecutive    *)
(* segments whose gap exceeds 1000 ms build_transcript ("simple",          *)
(* "detailed") emits a period followed by a newline character; for a gap   *)
(* of 200 ms it emits a comma.                                             *)
C7_GapPunctuation ==
    (Built({"simple", "detailed"}) /\ granularity = "chunk"
     /\ metadata.pause_points = <<>>) =>
        \A i \in 1..(Len(segments) - 1) :
            /\ Gap(i) > 1000 => After(i, 2) = <<".", "\n">>
            /\ Gap(i) = 200 => After(i, 1) = <<",">>

(* C8: in "simple" and "detailed" formats, either granularity, when the    *)
(* next segment's start_time is within 150 ms of a recorded pause point    *)
(* the separator after the current segment is a sentence end plus line     *)
(* break, whatever the gap.                                                *)
C8_PauseAlignedBreak ==
    Built({"simple", "detailed"}) =>
        \A i \in 1..(Len(segments) - 1) :
            (\E k \in 1..Len(metadata.pause_points) :
                 Abs(metadata.pause_points[k] - segments[i + 1].start_time)
                     < 150)
            => After(i, 2) = <<".", "\n">>

(* C9: average_confidence of get_metadata is the mean of the confidences   *)
(* of the stored segments whose confidence is not None, and None when no   *)
(* segment has one; 0.9, None, 0.7 give 0.8.                               *)
C9_AverageOverPresentConfidences ==
    op = "get_metadata" =>
        LET cs == PresentConfidences(segments)
            avg == meta[1].average_confidence
        IN  /\ cs = <<>> => avg = None
            /\ cs # <<>> => avg = Some(<<SumSeq(cs), Len(cs)>>)
            /\ cs = <<90, 70>> => avg[1][1] = 80 * avg[1][2]

\* C9 witness: metadata read over confidences 0.9, None, 0.7
C9_Witness ==
    /\ op = "get_metadata"
    /\ Len(segments) = 3
    /\ [k \in 1..3 |-> segments[k].confidence] = <<Some(90), None, Some(70)>>
    /\ meta[1].average_confidence = Some(<<160, 2>>)

\* The builder of the end-to-end scenario of C10, built in "simple" format
C10_Scenario ==
    /\ Built({"simple"})
    /\ granularity = "word"
    /\ Timing(segments) = << <<"hello", 0, 400>>, <<"world", 500, 900>>,
                             <<"there", 30000, 30300>> >>
    /\ \A k \in 1..Len(segments) : segments[k].speaker = None
    /\ metadata.pause_points = <<29800>>

Failed(res) == res.error # None

(* C11: every transcribe_audio call creates one temporary WAV file, and    *)
(* that file no longer exists when the call returns, whether the           *)
(* transcription succeeded, the export failed or the engine raised.        *)
C11_TempFileDeleted ==
    op = "transcribe_audio" => temp_files = {}

(* C12: transcribe_audio never raises to its caller, and a failure of the  *)
(* export, of the engine call or of the formatting of the result gives a   *)
(* returned result with an error field, text "", confidence 0 and no       *)
(* segments.                                                               *)
C12_FailureIsErrorResult ==
    [][\A export_ok \in BOOLEAN :
         \A native \in WhisperResults \cup VoskResults :
            TranscribeAudio(export_ok, native) =>
                /\ raised' = "None"
                /\ (~export_ok
                    \/ native.kind \in {"raise", "malformed", "invalid_json"})
                   => /\ result'[1].error # None
                      /\ result'[1].text = ""
                      /\ result'[1].confidence = 0
                      /\ result'[1].segments = <<>>]_vars

\* The chunk of main's loop that holds the absolute time t, if any
ChunkAt(t) ==
    {k \in 1..Len(chunks[1]) :
        /\ chunks[1][k].start <= t
        /\ t < chunks[1][k].start + chunks[1][k].duration}

(* C13: in main's chunk loop a chunk whose engine call failed adds no      *)
(* segment and does not abort the run: the remaining chunks are still      *)
(* transcribed, and the segments the transcript and the metadata are made  *)
(* of come from the chunks that succeeded.                                 *)
C13_FailedChunkSkipped ==
    (pc \in {"loop", "done", "aborted"}
     /\ \E k \in 1..Len(results) : Failed(results[k])) =>
        /\ pc # "aborted"
        /\ \A j \in 1..Len(segments) :
              \E k \in ChunkAt(segments[j].start_time) :
                  k <= Len(results) /\ ~Failed(results[k])
        /\ pc = "done" =>
              /\ Len(results) = Len(chunks[1])
              /\ meta[1].segment_count = Len(segments)

\* The result res has text but no word timings (main, line 195)
Degraded(res) ==
    /\ res.text # ""
    /\ ~(res.segments # <<>> /\ res.segments[1].start # None)

(* C14: in a word-granularity run a chunk whose result has text but no     *)
(* word timings is a degraded result: its text is added at phrase level,   *)
(* a warning is printed, nothing is raised and the run goes on.            *)
C14_DegradedChunkAdded ==
    (granularity = "word" /\ pc \in {"loop", "aborted"} /\ results # <<>>
     /\ Degraded(results[Len(results)])) =>
        /\ pc = "loop"
        /\ raised = "None"
        /\ stderr # <<>> /\ stderr[Len(stderr)] = "Warning"
        /\ segments # <<>>
        /\ Len(results) \in ChunkAt(segments[Len(segments)].start_time)

\* A word unit has both of its bounds
Bounded(u) == u.start # None /\ u.end # None

\* The step is add_word_segments(w) on a word builder
AddsWords(w) ==
    /\ granularity = "word"
    /\ AddWordSegments(w.words, w.chunk_start, w.speaker)

\* The segments the step appended are the units kept, in input order
AppendedInOrder(w, kept) ==
    /\ raised' = "None"
    /\ Len(segments') = Len(segments) + Len(kept)
    /\ SubSeq(segments', 1, Len(segments)) = segments
    /\ \A k \in 1..Len(kept) :
          /\ segments'[Len(segments) + k].start_time
                = w.chunk_start + kept[k].start[1] * 100
          /\ segments'[Len(segments) + k].end_time
                = w.chunk_start + kept[k].end[1] * 100
          /\ segments'[Len(segments) + k].confidence = kept[k].confidence

(* C15, as the claim states it: add_word_segments appends one segment, in  *)
(* input order, for each unit of the batch that has both bounds, and       *)
(* nothing for the others; it raises nothing.                              *)
C15_OnePerBoundedUnit ==
    [][\A w \in WordCalls :
          AddsWords(w) =>
              AppendedInOrder(w, SelectSeq(w.words, Bounded))]_vars

(* C15, amended: add_word_segments appends one segment, in input order,    *)
(* for each unit of the batch that has both bounds and a word that is not  *)
(* blank, and nothing for the others; it raises nothing.                   *)
C15_OnePerBoundedWord ==
    [][\A w \in WordCalls :
          AddsWords(w) =>
              LET kept == SelectSeq(w.words,
                              LAMBDA u : Bounded(u) /\ u.word \notin {"", " "})
              IN  /\ AppendedInOrder(w, kept)
                  /\ \A k \in 1..Len(kept) :
                        segments'[Len(segments) + k].word = kept[k].word]_vars

\* C15 witness: the batch x, y without an end, a blank word with bounds
\* has added the one segment x
C15_Witness ==
    /\ op = "add_word_segments"
    /\ raised = "None"
    /\ Len(segments) = 1
    /\ segments[1].word = "x"
    /\ segments[1].speaker = Some("S1")

\* The raw transcript old extended by the texts new of the segments added
\* to a builder that held `held` segments
Extended(old, held, new) ==
    IF new = <<>> THEN old
    ELSE IF held = 0 THEN JoinSpace(new)
    ELSE old \o <<" ">> \o JoinSpace(new)

(* C16: the builder has no terminal state: after build_transcript calls    *)
(* an append that matches the granularity still succeeds, and the raw      *)
(* transcript after it is the raw transcript before it extended by the     *)
(* new text.                                                               *)
C16_AppendAfterBuild ==
    [][(\/ op' = "add_chunk_segment" /\ granularity = "chunk"
        \/ op' = "add_word_segments" /\ granularity = "word") =>
          /\ raised' = "None"
          /\ Len(segments') >= Len(segments)
          /\ SubSeq(segments', 1, Len(segments)) = segments
          /\ build_transcript(granularity, segments', metadata', "raw")
                = Extended(build_transcript(granularity, segments, metadata,
                                            "raw"),
                           Len(segments),
                           Texts(SubSeq(segments', Len(segments) + 1,
                                        Len(segments')), granularity))]_vars

\* C16 witness: a raw build that shows a segment appended after the first
C16_Witness ==
    /\ Built({"raw"})
    /\ raised = "None"
    /\ Len(segments) >= 2
    /\ transcript = JoinSpace(Texts(segments, granularity))
    /\ Len(transcript) >= 3

(* C17: build_transcript never raises: on every builder that successful    *)
(* appends and pause points lead to, and for each format, it returns a     *)
(* string.                                                                 *)
C17_BuildNeverRaises ==
    op = "build_transcript" =>
        /\ raised = "None"
        /\ format_type \in Formats
        /\ DOMAIN transcript = 1..Len(transcript)
        /\ \A k \in 1..Len(transcript) : transcript[k] \in STRING

\* C17 witness: a detailed build over a full builder with a pause point
C17_Witness ==
    /\ Built({"detailed"})
    /\ raised = "None"
    /\ Len(segments) = MaxSegments
    /\ metadata.pause_points # <<>>
    /\ transcript # <<>>

(* C18: in a run of main the builder's pause points are the pauses that    *)
(* detect_pauses found, as absolute milliseconds, so pause_count of        *)
(* get_metadata is the number of detected pauses.                          *)
C18_PausesRecorded ==
    pc = "done" =>
        /\ Len(metadata.pause_points) = Len(pause_timestamps)
        /\ \A k \in 1..Len(pause_timestamps) :
              Same(Quotient(metadata.pause_points[k], 1000),
                   pause_timestamps[k])
        /\ meta[1].pause_count = Len(pause_timestamps)

(* C19: the confidence of a formatted result is the mean of the            *)
(* confidences of its units that are not None, for each engine and each    *)
(* branch, and 0 when no unit has one.                                     *)
C19_MeanOverPresent ==
    (op = "transcribe_audio" /\ ~Failed(result[1])) =>
        LET cs == NotNoneConfidences(result[1].segments)
        IN  IF cs = <<>> THEN result[1].confidence = 0
            ELSE result[1].confidence * Len(cs) = SumSeq(cs)

(* C20: get_chunks fails exactly when no buffer is loaded (load_audio not  *)
(* called, or failed) and succeeds on every loaded buffer; it leaves the   *)
(* processor as it was and returns the same chunks when repeated.          *)
C20_FailsIffNotLoaded ==
    [][op' = "get_chunks" =>
          /\ raised' = "ValueError" <=> audio = None
          /\ raised' = "None" <=> audio # None
          /\ UNCHANGED <<audio, chunk_size>>
          /\ raised' = "None" =>
                chunks' = Some(ChunksFrom(audio[1], chunk_size, 0))]_vars

(* C21: on a builder that holds a segment, of either granularity, the      *)
(* transcript built in "simple" or "detailed" format ends with a period,   *)
(* the one that terminates the last segment.                               *)
C21_EndsWithPeriod ==
    (Built({"simple", "detailed"}) /\ segments # <<>>) =>
        /\ transcript # <<>>
        /\ transcript[Len(transcript)] = "."
        /\ Len(transcript) = Len(UnitPrefix(Len(segments))) + 1

\* C21 witness: a detailed chunk build whose last segment carries a speaker
\* tag and a start time
C21_Witness ==
    /\ Built({"detailed"})
    /\ granularity = "chunk"
    /\ Len(segments) = 2
    /\ segments[2].speaker = Some("S2")
    /\ transcript[Len(transcript)] = "."
    /\ transcript[Len(transcript) - 1] = "]"

\* The start times of the segments of segs that satisfy changed(segs, i)
ChangeTimes(segs, changed(_, _)) ==
    LET idx == SelectSeq([i \in 1..Len(segs) |-> i],
                         LAMBDA i : changed(segs, i))
    IN  [k \in 1..Len(idx) |-> segs[idx[k]].start_time]

\* Segment i's speaker differs from segment i-1's, or it is the first
\* segment that carries a speaker
DiffersFromPrevious(segs, i) ==
    IF i = 1 THEN segs[i].speaker # None
    ELSE \/ segs[i].speaker # segs[i - 1].speaker
         \/ /\ segs[i].speaker # None
            /\ \A j \in 1..(i - 1) : segs[j].speaker = None

(* C22, as the claim states it: the speaker-change list holds, in order,   *)
(* the start time of exactly the segments whose speaker differs from the   *)
(* previous segment's or that are the first to carry a speaker; a segment  *)
(* with no speaker after one with a speaker counts as differing.           *)
C22_ChangeOnAnyDifference ==
    metadata.speaker_changes = ChangeTimes(segments, DiffersFromPrevious)

\* Segment i carries a speaker that differs from segment i-1's speaker
\* (or segment i is the first segment)
SpeakerDiffers(segs, i) ==
    /\ segs[i].speaker # None
    /\ segs[i].speaker[1] # ""
    /\ (i = 1 \/ segs[i].speaker # segs[i - 1].speaker)

(* C22, amended: the speaker-change list holds, in order, the start time   *)
(* of exactly the segments that carry a speaker and are the first segment  *)
(* or differ in speaker from the previous segment; a segment with no       *)
(* speaker never records a change.                                         *)
C22_ChangeOnNewSpeaker ==
    metadata.speaker_changes = ChangeTimes(segments, SpeakerDiffers)

\* C22 witness: speakers S1, none, S1: two changes recorded, none for the
\* segment without a speaker
C22_Witness ==
    /\ granularity = "chunk"
    /\ Len(segments) = 3
    /\ [k \in 1..3 |-> segments[k].speaker] = <<Some("S1"), None, Some("S1")>>
    /\ Len(metadata.speaker_changes) = 2

(* C24: in every builder state the stored segments are in non-decreasing   *)
(* start_time order, whoever issued the appends.                           *)
C24_SegmentsOrdered ==
    \A i \in 1..(Len(segments) - 1) :
        segments[i].start_time <= segments[i + 1].start_time

\* The text or word of segment i
TextOf(i) ==
    IF granularity = "word" THEN segments[i].word ELSE segments[i].text

\* The pieces of the built transcript between segment i's text and the
\* next segment's text, in "simple" format
Between(i) ==
    SubSeq(transcript, Len(UnitPrefix(i)) + 1,
           Len(UnitPrefix(i + 1)) - (IF TextOf(i + 1) = "" THEN 0 ELSE 1))

(* C28: in "simple" format, either granularity, every segment but the      *)
(* last is followed by exactly one separator chosen by the gap to the      *)
(* next: period and line break (gap > 1000 ms, or pause-aligned), period   *)
(* and space (gap > 400 ms in chunk mode, > 300 ms in word mode), else     *)
(* comma and space; no two segments are joined without punctuation.        *)
C28_OneSeparator ==
    Built({"simple"}) =>
        \A i \in 1..(Len(segments) - 1) :
            Between(i) =
                IF Gap(i) > 1000
                   \/ IsMajorPause(metadata.pause_points,
                                   segments[i + 1].start_time)
                THEN <<".", "\n">>
                ELSE IF Gap(i) > (IF granularity = "chunk" THEN 400 ELSE 300)
                THEN <<".", " ">>
                ELSE <<",", " ">>

\* s is a prefix of t
IsPrefix(s, t) == Len(s) <= Len(t) /\ SubSeq(t, 1, Len(s)) = s

(* C29: the builder is append-only and monotone: no operation changes the  *)
(* granularity, removes, reorders or rewrites a stored segment, lowers     *)
(* total_duration or shortens the pause-point, speaker-change or           *)
(* confidence list; neither the confidence list nor the speaker-change     *)
(* list is longer than the segment list.                                   *)
C29_AppendOnly ==
    [][/\ granularity' = granularity
       /\ IsPrefix(segments, segments')
       /\ metadata'.total_duration >= metadata.total_duration
       /\ IsPrefix(metadata.pause_points, metadata'.pause_points)
       /\ IsPrefix(metadata.speaker_changes, metadata'.speaker_changes)
       /\ IsPrefix(metadata.confidence_scores, metadata'.confidence_scores)
       /\ Len(metadata'.confidence_scores) <= Len(segments')
       /\ Len(metadata'.speaker_changes) <= Len(segments')]_vars

\* C29 witness: a word batch appended to a builder that already held
\* segments, a pause point, a speaker change and a confidence
C29_Witness ==
    /\ op = "add_word_segments"
    /\ raised = "None"
    /\ Len(segments) = MaxSegments
    /\ segments[1].speaker # segments[MaxSegments].speaker
    /\ metadata.pause_points # <<>>
    /\ Len(metadata.confidence_scores) \in 1..(MaxSegments - 1)
    /\ Len(metadata.speaker_changes) \in 1..(MaxSegments - 1)

(* C30: add_pause_point appends its argument to the end of the pause-point *)
(* list as it is, duplicates and decreasing timestamps kept in insertion   *)
(* order, so that pause_count is the number of calls; it leaves segments,  *)
(* total_duration, speaker_changes and confidence_scores unchanged.        *)
C30_PausePointAppended ==
    [][/\ \A p \in PausePoints :
             AddPausePoint(p) =>
                 /\ raised' = "None"
                 /\ metadata'.pause_points
                       = Append(metadata.pause_points, p)
                 /\ metadata' = [metadata EXCEPT
                                    !.pause_points = metadata'.pause_points]
                 /\ UNCHANGED <<granularity, segments>>
       /\ op' = "get_metadata" =>
             meta'[1].pause_count = Len(metadata.pause_points)]_vars

\* C30 witness: a pause point added twice, after a later one
C30_Witness ==
    /\ op = "add_pause_point"
    /\ metadata.pause_points = <<29800, 2350, 2350>>
       \/ metadata.pause_points = <<2350, 2350>>
    /\ segments # <<>>

\* The two pieces that the "simple" transcript of the stored segments holds
\* after chunk segment i's text
SimpleAfter(i) ==
    LET t == build_transcript(granularity, segments, metadata, "simple")
        u == ChunkUnit(segments, "simple", i,
                       ChunkLoop(segments, metadata.pause_points, "simple",
                                 1, i - 1, <<>>))
    IN  SubSeq(t, Len(u) + 1, Min(Len(u) + 2, Len(t)))

(* C23: in chunk mode get_segments_for_llm returns one record per stored   *)
(* segment, in order, with the segment's text, times and speaker, with     *)
(* pause_after_ms the next start minus this end (none for the last), and   *)
(* with is_major_pause true exactly when that gap exceeds 1000 ms or the   *)
(* next start is within 150 ms of a pause point, which is exactly when     *)
(* build_transcript("simple") puts a line break after the segment; in      *)
(* word mode it returns the stored word segments as they are.              *)
C23_LlmSegments ==
    op = "get_segments_for_llm" =>
        IF granularity = "word" THEN meta[1] = segments
        ELSE /\ Len(meta[1]) = Len(segments)
             /\ \A i \in 1..Len(segments) :
                   LET r == meta[1][i]
                       last == i = Len(segments)
                   IN  /\ r.text = segments[i].text
                       /\ r.start_time = segments[i].start_time
                       /\ r.end_time = segments[i].end_time
                       /\ r.speaker = segments[i].speaker
                       /\ r.pause_after_ms
                             = IF last THEN None ELSE Some(Gap(i))
                       /\ r.is_major_pause
                             <=> /\ ~last
                                 /\ \/ Gap(i) > 1000
                                    \/ \E k \in
                                          1..Len(metadata.pause_points) :
                                          Abs(metadata.pause_points[k]
                                              - segments[i + 1].start_time)
                                            < 150
                       /\ r.is_major_pause
                             <=> SimpleAfter(i) = <<".", "\n">>

\* The millisecond [t, t + 1) of the audio lies in the silence range r
InPause(t, r) == r[1] <= t /\ t < r[2]

\* The millisecond [t, t + 1) lies in the speech segment sp, in seconds
InSpeech(t, sp) ==
    /\ ~Less(Quotient(t, 1000), sp[1])
    /\ Less(Quotient(t, 1000), sp[2])

\* The speech segments sp are ordered, non-empty and inside the audio, and
\* every millisecond of the audio lies in one pause range or in one speech
\* segment, never in both
IsComplement(sp) ==
    LET duration == Quotient(audio[1], 1000)
    IN  /\ \A k \in 1..Len(sp) :
              /\ Less(sp[k][1], sp[k][2])
              /\ ~Less(sp[k][1], Quotient(0, 1))
              /\ ~Less(duration, sp[k][2])
        /\ \A k \in 1..(Len(sp) - 1) : ~Less(sp[k + 1][1], sp[k][2])
        /\ \A t \in 0..(audio[1] - 1) :
              Cardinality({k \in 1..Len(silence.ranges) :
                             InPause(t, silence.ranges[k])})
              + Cardinality({k \in 1..Len(sp) : InSpeech(t, sp[k])})
                = 1

\* sp is the single segment (0, duration)
IsWholeAudio(sp) ==
    /\ Len(sp) = 1
    /\ Same(sp[1][1], Quotient(0, 1))
    /\ Same(sp[1][2], Quotient(audio[1], 1000))

(* C25, as the claim states it: get_speech_segments returns the complement *)
(* of the pause ranges within [0, duration), ordered, non-empty segments   *)
(* that with the pause ranges cover the audio exactly; with no pauses the  *)
(* result is the single segment (0, duration).                             *)
C25_SpeechIsComplementOrWhole ==
    op = "get_speech_segments" =>
        /\ raised = "None"
        /\ IsComplement(pause_timestamps)
        /\ silence.ranges = <<>> => IsWholeAudio(pause_timestamps)

(* C25, amended: get_speech_segments returns the complement of the pause   *)
(* ranges within [0, duration), ordered, non-empty segments that with the  *)
(* pause ranges cover the audio exactly; with no pauses the result is the  *)
(* single segment (0, duration) if the audio is not empty, and no segment  *)
(* if the duration is 0.                                                   *)
C25_SpeechIsComplement ==
    op = "get_speech_segments" =>
        /\ raised = "None"
        /\ IsComplement(pause_timestamps)
        /\ (silence.ranges = <<>> /\ audio[1] > 0) =>
              IsWholeAudio(pause_timestamps)
        /\ audio[1] = 0 => pause_timestamps = <<>>

\* C25 witness: silence at the start of the audio and in its middle, speech
\* after each
C25_Witness ==
    /\ op = "get_speech_segments"
    /\ Len(silence.ranges) = 2
    /\ silence.ranges[1][1] = 0
    /\ silence.ranges[2][2] < audio[1]
    /\ Len(pause_timestamps) = 2

(* C26: detect_pauses returns, in the order of the silence ranges, one     *)
(* timestamp per range, the midpoint (start + end) / 2 of the range in     *)
(* seconds; when the silence analysis raises, detect_pauses and            *)
(* get_pause_ranges return an empty sequence and raise nothing.            *)
C26_PauseMidpoints ==
    /\ op = "detect_pauses" =>
          /\ raised = "None"
          /\ Len(pause_timestamps) = Len(silence.ranges)
          /\ \A k \in 1..Len(silence.ranges) :
                LET r == silence.ranges[k]
                IN  2 * 1000 * pause_timestamps[k][1]
                        = (r[1] + r[2]) * pause_timestamps[k][2]
          /\ silence.raised => pause_timestamps = <<>>
    /\ (op = "get_pause_ranges" /\ silence.raised) =>
          /\ raised = "None"
          /\ pause_timestamps = <<>>

\* C26 witness: two silence ranges, the first with a midpoint that is not
\* a whole millisecond
C26_Witness ==
    /\ op = "detect_pauses"
    /\ Len(silence.ranges) = 2
    /\ (silence.ranges[1][1] + silence.ranges[1][2]) % 2 = 1
    /\ Len(pause_timestamps) = 2

\* The sum of the durations of the first k chunks
ChunkOffset(k) == SumSeq([j \in 1..k |-> chunks[1][j].duration])

(* C27: in main's chunk loop the offset current_time_ms used for chunk k   *)
(* is the sum of the durations of chunks 1..k-1, whatever the earlier      *)
(* chunks returned; in chunk mode every stored segment starts at the       *)
(* offset of its chunk and ends at that offset plus the chunk's duration,  *)
(* and consecutive stored segments do not overlap.                         *)
C27_OffsetsAreChunkSums ==
    /\ pc \in {"loop", "done"} => current_time_ms = ChunkOffset(Len(results))
    /\ pc = "aborted" /\ results # <<>> =>
          current_time_ms = ChunkOffset(Len(results) - 1)
    /\ (pc \in {"loop", "done", "aborted"} /\ granularity = "chunk") =>
          /\ \E f \in [1..Len(segments) -> 1..Len(results)] :
                /\ \A j \in 1..(Len(segments) - 1) : f[j] < f[j + 1]
                /\ \A j \in 1..Len(segments) :
                      /\ segments[j].start_time = ChunkOffset(f[j] - 1)
                      /\ segments[j].end_time
                            = ChunkOffset(f[j] - 1) + chunks[1][f[j]].duration
          /\ \A j \in 1..(Len(segments) - 1) :
                segments[j + 1].start_time >= segments[j].end_time

\* C27 witness: chunk mode, the first chunk failed, the second one stored
\* at the offset of the second chunk, the third about to be processed
C27_Witness ==
    /\ pc = "loop"
    /\ granularity = "chunk"
    /\ Len(results) = 2
    /\ results[1].error # None
    /\ Len(segments) = 1
    /\ segments[1].start_time = CHUNK_SIZE
    /\ current_time_ms = 2 * CHUNK_SIZE
=============================================================================
